---- MODULE Spec2Model ----
(***************************************************************************)
(* Projector (src/server.py): a threaded HTTP control server that starts,  *)
(* polls and stops one external ffmpeg capture process and serves the HLS  *)
(* files that process writes.                                              *)
(*                                                                         *)
(* Every request is handled on its own thread (ThreadingHTTPServer), the   *)
(* signal handlers run on the main thread, and the only shared state is    *)
(* the module global _ffmpeg_proc, read and written without a lock.  Each  *)
(* action below is one read or one write of that global (or one system     *)
(* call on the process it names), so the interleavings of the model are    *)
(* the interleavings of the code.                                          *)
(***************************************************************************)
EXTENDS Integers, Sequences, FiniteSets, TLC

(***************************************************************************)
(* Bounds of the model.                                                    *)
(***************************************************************************)
\* capture processes launched over one run of the server
MaxProcs == 2
\* iterations of the polling loop of start_stream (range(40) in the code)
MaxPolls == 2
\* longest <name> of a GET /hls/<name> request, in tokens
MaxNameLen == 3

(***************************************************************************)
(* Program constants.                                                      *)
(***************************************************************************)
CONTROL_PORT == 8000

None == 0
Pids == 1..MaxProcs
\* the request threads of the listener, and the main thread (signal handlers)
Threads == {"t1", "t2"}
Main == "main"
Actors == Threads \cup {Main}

VARIABLES
    ffmpeg_proc,  \* the global _ffmpeg_proc: None or the Popen object (its pid)
    proc,         \* pid -> state of that operating-system process
    dirExists,    \* HLS_DIR exists
    files,        \* names of the files inside HLS_DIR
    manifestBy,   \* who wrote stream.m3u8: a pid, -1 (an earlier run), 0 if absent
    pc,           \* actor -> the line it is about to execute
    local,        \* thread -> the local variables of the handler it runs
    result,       \* what the step just taken handed back to a client, if anything
    server,       \* "up", "finalizing" (atexit handlers run), "exited"
    stopRuns,     \* calls of stop_stream made by cleanup() on the main thread
    last          \* outcome of the last start/stop call that returned

vars == <<ffmpeg_proc, proc, dirExists, files, manifestBy, pc, local, result,
          server, stopRuns, last>>

fsvars == <<dirExists, files, manifestBy>>
mainvars == <<server, stopRuns>>

(***************************************************************************)
(* Names.  A file name is a sequence of tokens; "." and "/" are the only   *)
(* tokens that hold a dot or a separator, so a substring test for ".." or  *)
(* "/" on the text is the same test on the tokens.                         *)
(***************************************************************************)
Manifest == <<"stream", ".", "m3u8">>
Segment == <<"seg000", ".", "ts">>
HLS_DIR == <<"/", "tmp", "/", "projector-stream">>

LOOPBACK == "127.0.0.1"
LanAddr == "192.168.1.20"
Addrs == {LanAddr, LOOPBACK}

PermissionHint == "Failed - grant Screen Recording permission"
NoSegments == "No segments generated"

\* lines 24-32, get_local_ip(): what a call can return, the address of the
\* outbound interface or, when the probe fails, loopback
get_local_ip == Addrs

\* a process that still runs: launched, and neither dead nor sent SIGKILL
Alive(p) == proc[p] \in {"running", "terminating"}
\* Popen.poll() is not None / wait() returns: the process has been reaped
Exited(p) == proc[p] = "exited"
Launched == {p \in Pids : proc[p] # "unborn"}

\* os.path.exists(os.path.join(HLS_DIR, "stream.m3u8"))
ManifestExists == dirExists /\ Manifest \in files

(***************************************************************************)
(* What a request thread hands back: the HTTP response (code 0: none was   *)
(* sent, the handler raised), and for POST /api/start the pair             *)
(* start_stream returned.  "by" is the thread, "spawned" the process the   *)
(* call launched, "name" the <name> of a GET /hls/<name>.  The record is   *)
(* in "result" in the state the handler returns in, and gone with the next *)
(* step.                                                                   *)
(***************************************************************************)
NoResult ==
    [op |-> "none", by |-> "", spawned |-> None, code |-> 0, fault |-> "",
     ok |-> FALSE, msg |-> "", page |-> "", running |-> FALSE, ip |-> "",
     url |-> <<>>, name |-> <<>>, opened |-> <<>>, read |-> <<>>,
     ctype |-> "", cache |-> "", cors |-> FALSE]

NoLocal == [i |-> 0, child |-> None, running |-> FALSE, ip |-> LOOPBACK]

Url(a) == <<"http://", a, ":", CONTROL_PORT>>

\* lines 198-204, send_json: 200, application/json and no other header
send_json(op) ==
    [NoResult EXCEPT !.op = op, !.code = 200, !.ctype = "application/json"]

\* an exception left the handler: socketserver logs it and closes the socket
Raised(op, exc) == [NoResult EXCEPT !.op = op, !.fault = exc]

\* lines 172-177, do_POST: the JSON built from start_stream's (ok, msg)
StartReply(ok, msg, addr) ==
    [send_json("start") EXCEPT !.ok = ok, !.msg = msg, !.ip = addr,
                               !.url = IF ok THEN Url(addr) ELSE <<>>]

\* line 180, do_POST
StopReply == [send_json("stop") EXCEPT !.ok = TRUE, !.msg = "Stopped"]

\* the handler ends: its locals go, its answer is out
Return(t, r) ==
    /\ pc' = [pc EXCEPT ![t] = "idle"]
    /\ local' = [local EXCEPT ![t] = NoLocal]
    /\ result' = [r EXCEPT !.by = t, !.spawned = local[t].child]

\* the actor moves on to line l
Goto(a, l) ==
    /\ pc' = [pc EXCEPT ![a] = l]
    /\ result' = NoResult

Up == server # "exited"

Init ==
    /\ ffmpeg_proc = None
    /\ proc = [p \in Pids |-> "unborn"]
    /\ dirExists \in BOOLEAN
    /\ files = IF dirExists THEN {Manifest, Segment} ELSE {}
    /\ manifestBy = IF dirExists THEN -1 ELSE 0
    /\ pc = [a \in Actors |-> IF a = Main THEN "join" ELSE "idle"]
    /\ local = [t \in Threads |-> NoLocal]
    /\ result = NoResult
    /\ server = "up"
    /\ stopRuns = 0
    /\ last = "none"

(***************************************************************************)
(* start_stream, lines 55-106.                                             *)
(***************************************************************************)
\* launches still possible within MaxProcs, counting calls past line 58
Room ==
    Cardinality(Launched)
      + Cardinality({t \in Threads : pc[t] \in {"s61", "s63"}}) < MaxProcs

\* lines 49-52, prepare_hls_dir: rmtree if present, then makedirs
prepare_hls_dir ==
    /\ dirExists' = TRUE
    /\ files' = {}
    /\ manifestBy' = 0

\* start_stream_check gone wrong: the directory is emptied before the test
start_stream_check_eager(t) ==
    /\ Up /\ pc[t] = "idle"
    /\ prepare_hls_dir
    /\ IF ffmpeg_proc # None
       THEN /\ \E addr \in get_local_ip :
                 Return(t, StartReply(TRUE, "Already running", addr))
            /\ last' = "started"
       ELSE /\ Room
            /\ Goto(t, "s63")
            /\ UNCHANGED <<local, last>>
    /\ UNCHANGED <<ffmpeg_proc, proc, mainvars>>

\* lines 58-59: the call, and its test of the handle
start_stream_check(t) ==
    /\ Up /\ pc[t] = "idle"
    /\ IF ffmpeg_proc # None
       THEN /\ \E addr \in get_local_ip :
                 Return(t, StartReply(TRUE, "Already running", addr))
            /\ last' = "started"
       ELSE /\ Room
            /\ Goto(t, "s61")
            /\ UNCHANGED <<local, last>>
    /\ UNCHANGED <<ffmpeg_proc, proc, fsvars, mainvars>>

\* start_stream_prepare gone wrong: the directory is left as it was
start_stream_prepare_skip(t) ==
    /\ Up /\ pc[t] = "s61"
    /\ Goto(t, "s63")
    /\ UNCHANGED <<ffmpeg_proc, proc, fsvars, local, mainvars, last>>

\* line 61
start_stream_prepare(t) ==
    /\ Up /\ pc[t] = "s61"
    /\ prepare_hls_dir
    /\ Goto(t, "s63")
    /\ UNCHANGED <<ffmpeg_proc, proc, local, mainvars, last>>

\* lines 63-83, right-hand side: Popen launches a new process
start_stream_popen(t) ==
    /\ Up /\ pc[t] = "s63"
    /\ \E p \in Pids :
         /\ proc[p] = "unborn"
         /\ \A q \in Pids : q < p => proc[q] # "unborn"
         /\ proc' = [proc EXCEPT ![p] = "running"]
         /\ local' = [local EXCEPT ![t].child = p]
    /\ Goto(t, "s63s")
    /\ UNCHANGED <<ffmpeg_proc, fsvars, mainvars, last>>

\* line 63, the assignment to the global; the loop starts
start_stream_store(t) ==
    /\ Up /\ pc[t] = "s63s"
    /\ ffmpeg_proc' = local[t].child
    /\ local' = [local EXCEPT ![t].i = 0]
    /\ Goto(t, "s88")
    /\ UNCHANGED <<proc, fsvars, mainvars, last>>

\* start_stream_poll gone wrong: the exit of the process is not tested
start_stream_poll_blind(t) ==
    /\ Up /\ pc[t] = "s88"
    /\ IF ffmpeg_proc = None
       THEN /\ Return(t, Raised("start", "AttributeError"))
            /\ last' = "failed"
       ELSE /\ Goto(t, "s93")
            /\ UNCHANGED <<local, last>>
    /\ UNCHANGED <<ffmpeg_proc, proc, fsvars, mainvars>>

\* lines 87-88: _ffmpeg_proc.poll() on whatever the global holds now
start_stream_poll(t) ==
    /\ Up /\ pc[t] = "s88"
    /\ IF ffmpeg_proc = None
       THEN /\ Return(t, Raised("start", "AttributeError"))
            /\ last' = "failed"
       ELSE /\ Goto(t, IF Exited(ffmpeg_proc) THEN "s89" ELSE "s93")
            /\ UNCHANGED <<local, last>>
    /\ UNCHANGED <<ffmpeg_proc, proc, fsvars, mainvars>>

\* line 89: _ffmpeg_proc.stderr.read() returns at end of file, that is once
\* the process the global names now has gone
start_stream_stderr(t) ==
    /\ Up /\ pc[t] = "s89"
    /\ IF ffmpeg_proc = None
       THEN /\ Return(t, Raised("start", "AttributeError"))
            /\ last' = "failed"
       ELSE /\ Exited(ffmpeg_proc)
            /\ Goto(t, "s90")
            /\ UNCHANGED <<local, last>>
    /\ UNCHANGED <<ffmpeg_proc, proc, fsvars, mainvars>>

\* start_stream_exited gone wrong: the handle of the dead process is kept
start_stream_exited_keep(t) ==
    /\ Up /\ pc[t] = "s90"
    /\ \E addr \in get_local_ip :
         Return(t, StartReply(FALSE, PermissionHint, addr))
    /\ last' = "failed"
    /\ UNCHANGED <<ffmpeg_proc, proc, fsvars, mainvars>>

\* lines 90-92: clear the handle, report the permission hint
start_stream_exited(t) ==
    /\ Up /\ pc[t] = "s90"
    /\ ffmpeg_proc' = None
    /\ \E addr \in get_local_ip :
         Return(t, StartReply(FALSE, PermissionHint, addr))
    /\ last' = "failed"
    /\ UNCHANGED <<proc, fsvars, mainvars>>

\* lines 93-94, and the loop's next iteration or its end
start_stream_exists(t) ==
    /\ Up /\ pc[t] = "s93"
    /\ IF ManifestExists
       THEN /\ \E addr \in get_local_ip :
                 Return(t, StartReply(TRUE, "Started", addr))
            /\ last' = "started"
       ELSE /\ local' = [local EXCEPT ![t].i = local[t].i + 1]
            /\ Goto(t, IF local[t].i + 1 < MaxPolls THEN "s88" ELSE "s99")
            /\ UNCHANGED last
    /\ UNCHANGED <<ffmpeg_proc, proc, fsvars, mainvars>>

\* SIGTERM: ffmpeg catches it and finishes in its own time
Terminate(p) ==
    [proc EXCEPT ![p] = IF proc[p] = "running" THEN "terminating" ELSE proc[p]]

\* SIGKILL: cannot be caught; the process is gone once the kernel reaps it
Kill(p) ==
    [proc EXCEPT ![p] = IF proc[p] \in {"running", "terminating"}
                        THEN "killed" ELSE proc[p]]

\* line 99, inside try: an exception goes to the except clause (line 103)
start_stream_terminate(t) ==
    /\ Up /\ pc[t] = "s99"
    /\ IF ffmpeg_proc = None
       THEN /\ Goto(t, "s103")
            /\ UNCHANGED proc
       ELSE /\ proc' = Terminate(ffmpeg_proc)
            /\ Goto(t, "s100")
    /\ UNCHANGED <<ffmpeg_proc, fsvars, local, mainvars, last>>

\* lines 100-101: communicate(timeout=3) returns once the process has gone,
\* or raises TimeoutExpired while it has not
start_stream_communicate(t) ==
    /\ Up /\ pc[t] = "s100"
    /\ Goto(t, IF ffmpeg_proc # None /\ Exited(ffmpeg_proc)
               THEN "s104" ELSE "s103")
    /\ UNCHANGED <<ffmpeg_proc, proc, fsvars, local, mainvars, last>>

\* line 103, in the except clause: nothing catches what it raises
start_stream_kill(t) ==
    /\ Up /\ pc[t] = "s103"
    /\ IF ffmpeg_proc = None
       THEN /\ Return(t, Raised("start", "AttributeError"))
            /\ last' = "failed"
            /\ UNCHANGED proc
       ELSE /\ proc' = Kill(ffmpeg_proc)
            /\ Goto(t, "s104")
            /\ UNCHANGED <<local, last>>
    /\ UNCHANGED <<ffmpeg_proc, fsvars, mainvars>>

\* lines 104-106
start_stream_noseg(t) ==
    /\ Up /\ pc[t] = "s104"
    /\ ffmpeg_proc' = None
    /\ \E addr \in get_local_ip :
         Return(t, StartReply(FALSE, NoSegments, addr))
    /\ last' = "failed"
    /\ UNCHANGED <<proc, fsvars, mainvars>>

(***************************************************************************)
(* stop_stream, lines 109-117.  Called by the thread of POST /api/stop and *)
(* by cleanup() on the main thread.                                        *)
(***************************************************************************)
\* the server process ends: its threads and their locals go with it; the
\* capture processes and the files stay
Ends ==
    /\ pc' = [a \in Actors |-> "exited"]
    /\ local' = [t \in Threads |-> NoLocal]
    /\ result' = NoResult
    /\ server' = "exited"

\* the caller's stop_stream raised: a request thread drops its connection;
\* on the main thread the exception leaves the signal handler before
\* os._exit, main() ends and the interpreter runs its atexit handlers; an
\* exception inside an atexit handler is printed and the exit goes on
stop_stream_raised(a) ==
    IF a \in Threads
    THEN /\ Return(a, Raised("stop", "AttributeError"))
         /\ UNCHANGED server
    ELSE IF server = "up"
    THEN /\ Goto(a, "atexit")
         /\ server' = "finalizing"
         /\ UNCHANGED local
    ELSE Ends

\* the server process ends by os._exit(0): at once, no atexit handler runs,
\* and the global goes with the process
os_exit ==
    /\ Ends
    /\ ffmpeg_proc' = None

\* the caller's stop_stream returned: POST /api/stop answers (line 180); the
\* signal handler goes on to os._exit(0) (lines 219-220); after the atexit
\* handler the interpreter exits
stop_stream_returned(a) ==
    IF a \in Threads
    THEN /\ Return(a, StopReply)
         /\ UNCHANGED server
    ELSE IF server = "up"
    THEN os_exit
    ELSE Ends

\* line 111, the first statement of a call
stop_stream_check(a) ==
    Goto(a, IF ffmpeg_proc # None THEN "k112" ELSE "k117")

\* POST /api/stop arrives: do_POST calls stop_stream (line 179)
do_POST_stop(t) ==
    /\ Up /\ pc[t] = "idle"
    /\ stop_stream_check(t)
    /\ UNCHANGED <<ffmpeg_proc, proc, fsvars, local, mainvars, last>>

\* lines 112-116: kill() on what the global holds now, then wait(timeout=2),
\* which returns when the process has gone or raises and is ignored
stop_stream_kill(a) ==
    /\ Up /\ pc[a] = "k112"
    /\ IF ffmpeg_proc = None
       THEN /\ stop_stream_raised(a)
            /\ UNCHANGED proc
       ELSE /\ proc' = Kill(ffmpeg_proc)
            /\ Goto(a, "k117")
            /\ UNCHANGED <<local, server>>
    /\ UNCHANGED <<ffmpeg_proc, fsvars, stopRuns, last>>

\* stop_stream_clear gone wrong: the handle is not cleared
stop_stream_keep(a) ==
    /\ Up /\ pc[a] = "k117"
    /\ stop_stream_returned(a)
    /\ last' = "stopped"
    /\ UNCHANGED <<ffmpeg_proc, proc, fsvars, stopRuns>>

\* line 117
stop_stream_clear(a) ==
    /\ Up /\ pc[a] = "k117"
    /\ ffmpeg_proc' = None
    /\ stop_stream_returned(a)
    /\ last' = "stopped"
    /\ UNCHANGED <<proc, fsvars, stopRuns>>

(***************************************************************************)
(* main, lines 210-225: the main thread sits in thread.join(); SIGINT and  *)
(* SIGTERM run cleanup() and then os._exit(0); cleanup is also registered  *)
(* with atexit.  One signal is delivered.                                  *)
(***************************************************************************)
\* lines 215-216, cleanup(*_): calls stop_stream
cleanup ==
    /\ stop_stream_check(Main)
    /\ stopRuns' = stopRuns + 1

\* lines 219-220: the handler starts
signal_handler ==
    /\ server = "up" /\ pc[Main] = "join"
    /\ cleanup
    /\ UNCHANGED <<ffmpeg_proc, proc, fsvars, local, server, last>>

\* line 218: the interpreter, finalizing, calls the registered cleanup
atexit_cleanup ==
    /\ server = "finalizing" /\ pc[Main] = "atexit"
    /\ cleanup
    /\ UNCHANGED <<ffmpeg_proc, proc, fsvars, local, server, last>>

(***************************************************************************)
(* The capture process and the host, which the server does not control.    *)
(***************************************************************************)
\* ffmpeg ends: refused permission, crashed, finished after SIGTERM, or
\* reaped after SIGKILL
ffmpeg_exit(p) ==
    /\ proc[p] \in {"running", "terminating", "killed"}
    /\ proc' = [proc EXCEPT ![p] = "exited"]
    /\ result' = NoResult
    /\ UNCHANGED <<ffmpeg_proc, fsvars, pc, local, mainvars, last>>

\* ffmpeg writes the playlist (line 79 names it)
ffmpeg_write_manifest(p) ==
    /\ Alive(p) /\ dirExists
    /\ manifestBy # p
    /\ files' = files \cup {Manifest}
    /\ manifestBy' = p
    /\ result' = NoResult
    /\ UNCHANGED <<ffmpeg_proc, proc, dirExists, pc, local, mainvars,
                   last>>

\* ffmpeg writes a segment (line 78 names it)
ffmpeg_write_segment(p) ==
    /\ Alive(p) /\ dirExists
    /\ Segment \notin files
    /\ files' = files \cup {Segment}
    /\ result' = NoResult
    /\ UNCHANGED <<ffmpeg_proc, proc, dirExists, manifestBy, pc, local,
                   mainvars, last>>

(***************************************************************************)
(* Paths and the file system, as os.path and open() treat them.            *)
(***************************************************************************)
\* what a client can put after /hls/: the names ffmpeg writes, and every text
\* of up to MaxNameLen tokens over a plain word, the dot and the separator
Tokens == {"ts", ".", "/"}
Names == UNION {[1..n -> Tokens] : n \in 0..MaxNameLen} \cup {Manifest, Segment}

STATIC_DIR == <<"/", "srv">>
ControlPage == <<"control", ".", "html">>
ViewerPage == <<"viewer", ".", "html">>

\* ".." in filename
HasDotDot(name) ==
    \E k \in 1..(Len(name) - 1) : name[k] = "." /\ name[k + 1] = "."

\* "/" in filename
HasSep(name) == \E k \in 1..Len(name) : name[k] = "/"

\* os.path.join(a, b): an absolute b discards a
join(a, b) ==
    IF b # <<>> /\ b[1] = "/" THEN b
    ELSE IF a # <<>> /\ a[Len(a)] = "/" THEN a \o b
    ELSE a \o <<"/">> \o b

\* os.path.splitext(name)[1]: from the last dot, unless only dots precede it
splitext(name) ==
    LET dots == {k \in 1..Len(name) :
                   /\ name[k] = "."
                   /\ \E j \in 1..(k - 1) : name[j] # "."}
    IN  IF dots = {} THEN <<>>
        ELSE SubSeq(name, CHOOSE k \in dots : \A j \in dots : j <= k, Len(name))

\* MIME_TYPES.get(ext, "application/octet-stream"), lines 120-125 and 150
MIME_TYPES(ext) ==
    CASE ext = <<".", "html">> -> "text/html"
      [] ext = <<".", "m3u8">> -> "application/vnd.apple.mpegurl"
      [] ext = <<".", "ts">> -> "video/mp2t"
      [] ext = <<".", "js">> -> "application/javascript"
      [] OTHER -> "application/octet-stream"

\* the components of a path between its separators
RECURSIVE Components(_)
Components(path) ==
    IF path = <<>> THEN << <<>> >>
    ELSE LET rest == Components(Tail(path))
         IN  IF Head(path) = "/" THEN << <<>> >> \o rest
             ELSE << <<Head(path)>> \o Head(rest) >> \o Tail(rest)

\* the kernel's walk: "" and "." stay, ".." goes up (the root is its own parent)
RECURSIVE Walk(_, _)
Walk(at, comps) ==
    IF comps = <<>> THEN at
    ELSE LET c == Head(comps)
         IN  Walk(IF c = <<>> \/ c = <<".">> THEN at
                  ELSE IF c = <<".", ".">>
                       THEN (IF at = <<>> THEN at ELSE SubSeq(at, 1, Len(at) - 1))
                       ELSE Append(at, c),
                  Tail(comps))

Resolve(path) == Walk(<<>>, Components(path))

HlsNode == Resolve(HLS_DIR)
StaticNode == Resolve(STATIC_DIR)

\* what the file system holds at a resolved path: the directories above, the
\* static pages beside server.py, HLS_DIR and its files, and two files outside
\* them for a traversal to find (/ts and /tmp/ts)
Kind(node) ==
    IF node \in {<<>>, << <<"tmp">> >>, StaticNode} THEN "dir"
    ELSE IF node \in {Append(StaticNode, ControlPage),
                      Append(StaticNode, ViewerPage),
                      << <<"ts">> >>, << <<"tmp">>, <<"ts">> >>} THEN "file"
    ELSE IF node = HlsNode THEN (IF dirExists THEN "dir" ELSE "missing")
    ELSE IF /\ dirExists /\ Len(node) = Len(HlsNode) + 1
            /\ SubSeq(node, 1, Len(HlsNode)) = HlsNode
            /\ node[Len(node)] \in files THEN "file"
    ELSE "missing"

(***************************************************************************)
(* Handler, lines 128-207.                                                 *)
(***************************************************************************)
\* send_error(code): an error page, no Cache-Control, no CORS header
send_error(op, code) ==
    [NoResult EXCEPT !.op = op, !.code = code, !.ctype = "text/html"]

\* lines 184-196
serve_file(op, filepath, content_type, cache) ==
    LET node == Resolve(filepath)
    IN  CASE Kind(node) = "file" ->
               [NoResult EXCEPT !.op = op, !.code = 200, !.opened = filepath,
                    !.read = node, !.ctype = content_type, !.cors = TRUE,
                    !.cache = IF cache THEN "max-age=60"
                              ELSE "no-cache, no-store, must-revalidate"]
          [] Kind(node) = "missing" ->
               [send_error(op, 404) EXCEPT !.opened = filepath]
          [] OTHER ->
               [Raised(op, "IsADirectoryError") EXCEPT !.opened = filepath]

\* lines 137-142: the placeholder, written without serve_file
Placeholder ==
    [NoResult EXCEPT !.op = "root", !.code = 200, !.ctype = "text/html",
                     !.page = "not active"]

\* lines 130-131, GET /project
do_GET_project(t) ==
    /\ Up /\ pc[t] = "idle"
    /\ Return(t, serve_file("project", join(STATIC_DIR, ControlPage),
                            "text/html", FALSE))
    /\ UNCHANGED <<ffmpeg_proc, proc, fsvars, mainvars, last>>

\* lines 132-142, GET / and GET /index.html
do_GET_root(t) ==
    /\ Up /\ pc[t] = "idle"
    /\ Return(t, IF ffmpeg_proc # None
                 THEN serve_file("root", join(STATIC_DIR, ViewerPage),
                                 "text/html", FALSE)
                 ELSE Placeholder)
    /\ UNCHANGED <<ffmpeg_proc, proc, fsvars, mainvars, last>>

\* the filter gone wrong: the separator is not looked for
RejectedDotsOnly(filename) == HasDotDot(filename)

\* lines 144-147: the filter on <name>
Rejected(filename) == HasDotDot(filename) \/ HasSep(filename)

\* lines 143-151, GET /hls/<filename>
HlsReply(filename) ==
    IF Rejected(filename) THEN send_error("hls", 403)
    ELSE LET ext == splitext(filename)
         IN  serve_file("hls", join(HLS_DIR, filename), MIME_TYPES(ext),
                        ext = <<".", "ts">>)

do_GET_hls(t, filename) ==
    /\ Up /\ pc[t] = "idle"
    /\ Return(t, [HlsReply(filename) EXCEPT !.name = filename])
    /\ UNCHANGED <<ffmpeg_proc, proc, fsvars, mainvars, last>>

\* lines 152-155, GET /api/status: the address, then "running"
do_GET_status_running(t) ==
    /\ Up /\ pc[t] = "idle"
    /\ \E addr \in get_local_ip :
         local' = [local EXCEPT ![t].ip = addr,
                                ![t].running = ffmpeg_proc # None]
    /\ Goto(t, "g157")
    /\ UNCHANGED <<ffmpeg_proc, proc, fsvars, mainvars, last>>

\* lines 157-158: "viewer_url" reads the global a second time
do_GET_status_url(t) ==
    /\ Up /\ pc[t] = "g157"
    /\ Return(t, [send_json("status") EXCEPT
                     !.running = local[t].running,
                     !.ip = local[t].ip,
                     !.url = IF ffmpeg_proc # None
                             THEN Url(local[t].ip) ELSE <<>>])
    /\ UNCHANGED <<ffmpeg_proc, proc, fsvars, mainvars, last>>

(***************************************************************************)
(* The server: request threads run concurrently with each other, with the  *)
(* main thread and with the capture processes.                             *)
(***************************************************************************)
Next ==
    \/ \E t \in Threads : start_stream_check(t)
    \/ \E t \in Threads : start_stream_prepare(t)
    \/ \E t \in Threads : start_stream_popen(t)
    \/ \E t \in Threads : start_stream_store(t)
    \/ \E t \in Threads : start_stream_poll(t)
    \/ \E t \in Threads : start_stream_stderr(t)
    \/ \E t \in Threads : start_stream_exited(t)
    \/ \E t \in Threads : start_stream_exists(t)
    \/ \E t \in Threads : start_stream_terminate(t)
    \/ \E t \in Threads : start_stream_communicate(t)
    \/ \E t \in Threads : start_stream_kill(t)
    \/ \E t \in Threads : start_stream_noseg(t)
    \/ \E t \in Threads : do_POST_stop(t)
    \/ \E a \in Actors : stop_stream_kill(a)
    \/ \E a \in Actors : stop_stream_clear(a)
    \/ \E t \in Threads : do_GET_root(t)
    \/ \E t \in Threads : do_GET_status_running(t)
    \/ \E t \in Threads : do_GET_status_url(t)
    \/ signal_handler
    \/ atexit_cleanup
    \/ \E p \in Pids : ffmpeg_exit(p)
    \/ \E p \in Pids : ffmpeg_write_manifest(p)

Spec == Init /\ [][Next]_vars

(***************************************************************************)
(* The same server when its clients send one request at a time, each after *)
(* the answer to the one before, and the signal finds no request in        *)
(* flight.  Every endpoint but /api/sources is served.                     *)
(***************************************************************************)
\* one thread serves them all
SeqThreads == {"t1"}
SeqActors == SeqThreads \cup {Main}

Solo(a) == \A b \in Actors \ {a} : pc[b] \in {"idle", "join", "exited"}

SeqNext ==
    \/ \E t \in SeqThreads : Solo(t) /\ start_stream_check(t)
    \/ \E t \in SeqThreads : Solo(t) /\ start_stream_prepare(t)
    \/ \E t \in SeqThreads : Solo(t) /\ start_stream_popen(t)
    \/ \E t \in SeqThreads : Solo(t) /\ start_stream_store(t)
    \/ \E t \in SeqThreads : Solo(t) /\ start_stream_poll(t)
    \/ \E t \in SeqThreads : Solo(t) /\ start_stream_stderr(t)
    \/ \E t \in SeqThreads : Solo(t) /\ start_stream_exited(t)
    \/ \E t \in SeqThreads : Solo(t) /\ start_stream_exists(t)
    \/ \E t \in SeqThreads : Solo(t) /\ start_stream_terminate(t)
    \/ \E t \in SeqThreads : Solo(t) /\ start_stream_communicate(t)
    \/ \E t \in SeqThreads : Solo(t) /\ start_stream_kill(t)
    \/ \E t \in SeqThreads : Solo(t) /\ start_stream_noseg(t)
    \/ \E t \in SeqThreads : Solo(t) /\ do_POST_stop(t)
    \/ \E a \in SeqActors : Solo(a) /\ stop_stream_kill(a)
    \/ \E a \in SeqActors : Solo(a) /\ stop_stream_clear(a)
    \/ \E t \in SeqThreads : Solo(t) /\ do_GET_project(t)
    \/ \E t \in SeqThreads : Solo(t) /\ do_GET_root(t)
    \/ \E t \in SeqThreads, n \in Names : Solo(t) /\ do_GET_hls(t, n)
    \/ \E t \in SeqThreads : Solo(t) /\ do_GET_status_running(t)
    \/ \E t \in SeqThreads : Solo(t) /\ do_GET_status_url(t)
    \/ Solo(Main) /\ signal_handler
    \/ \E p \in Pids : ffmpeg_exit(p)
    \/ \E p \in Pids : ffmpeg_write_manifest(p)
    \/ \E p \in Pids : ffmpeg_write_segment(p)

SeqSpec == Init /\ [][SeqNext]_vars

(***************************************************************************)
(* C1.  At most one capture process launched by start_stream is alive, and *)
(* a live one is the process _ffmpeg_proc refers to (or the one a Popen    *)
(* statement has launched and is about to assign to it), in every state    *)
(* the threaded server reaches.                                            *)
(***************************************************************************)
LiveCaptures == {p \in Pids : Alive(p)}

BeingStored(p) == \E t \in Threads : pc[t] = "s63s" /\ local[t].child = p

C1_AtMostOneSession ==
    Up => /\ Cardinality(LiveCaptures) <= 1
          /\ \A p \in LiveCaptures : p = ffmpeg_proc \/ BeingStored(p)

(***************************************************************************)
(* C2.  A start_stream call that finds the handle set returns              *)
(* (True, "Already running") and launches nothing, leaves the segment      *)
(* directory and the handle as they are.                                   *)
(***************************************************************************)
C2_SecondStartIsNoOp ==
    [][\A t \in Threads :
         (ffmpeg_proc # None /\ start_stream_check(t)) =>
            /\ result'.op = "start" /\ result'.by = t
            /\ result'.ok /\ result'.msg = "Already running"
            /\ result'.code = 200
            /\ proc' = proc
            /\ dirExists' = dirExists /\ files' = files
            /\ ffmpeg_proc' = ffmpeg_proc
            /\ pc'[t] = "idle"]_vars

\* a start answered "Already running" while the session's process runs
C2_Witness ==
    /\ result.op = "start" /\ result.msg = "Already running"
    /\ ffmpeg_proc # None /\ Alive(ffmpeg_proc)

(***************************************************************************)
(* C3.  A start_stream call that returns ok=false returns one of the two   *)
(* failure messages, the permission hint for a process of its own that has *)
(* exited, and when it returns the handle is None and the process the call *)
(* launched is not alive.                                                  *)
(***************************************************************************)
C3_FailedStartLeavesNoSession ==
    (result.op = "start" /\ result.fault = "" /\ ~result.ok) =>
        /\ result.msg \in {PermissionHint, NoSegments}
        /\ ffmpeg_proc = None
        /\ result.spawned # None
        /\ ~Alive(result.spawned)
        /\ result.msg = PermissionHint => Exited(result.spawned)

(***************************************************************************)
(* C4.  Every start_stream call ends by returning (ok, message): none ends *)
(* in an exception raised by using the handle after it was cleared.        *)
(***************************************************************************)
C4_StartNeverFaults == result.op = "start" => result.fault = ""

(***************************************************************************)
(* C5.  Every POST /api/stop is answered 200 with ok=true, and the handle  *)
(* is None when its stop_stream call has returned.                         *)
(***************************************************************************)
C5_StopAlwaysOk ==
    result.op = "stop" =>
        /\ result.fault = "" /\ result.code = 200 /\ result.ok
        /\ ffmpeg_proc = None

(***************************************************************************)
(* C6.  With requests handled one after another: GET / returns the         *)
(* placeholder before any start, the viewer page after a start that        *)
(* succeeded, the placeholder again after a stop, and the placeholder      *)
(* after a start that failed.                                              *)
(***************************************************************************)
ViewerNode == Append(StaticNode, ViewerPage)

C6_RootFollowsSession ==
    result.op = "root" =>
        IF last = "started"
        THEN result.code = 200 /\ result.read = ViewerNode /\ result.page = ""
        ELSE /\ result.code = 200 /\ result.page = "not active"
             /\ result.read = <<>>

\* the viewer page is served after a start that succeeded
C6_Witness ==
    /\ result.op = "root" /\ result.read = ViewerNode
    /\ last = "started"

(***************************************************************************)
(* C7.  With requests handled one after another: GET /api/status reports   *)
(* running=false and viewer_url=null before any start and after a stop or  *)
(* a failed start, and running=true with viewer_url = http://<ip>:8000,    *)
(* <ip> the address reported in the same answer, after a start that        *)
(* succeeded and no later stop.                                            *)
(***************************************************************************)
C7_StatusFollowsSession ==
    result.op = "status" =>
        /\ result.code = 200 /\ result.ip \in Addrs
        /\ IF last = "started"
           THEN /\ result.running
                /\ result.url = <<"http://", result.ip, ":", 8000>>
           ELSE ~result.running /\ result.url = <<>>

\* status after a start that succeeded: running, with the viewer's address
C7_Witness ==
    /\ result.op = "status" /\ result.running
    /\ result.url = <<"http://", LanAddr, ":", 8000>>
    /\ last = "started"

(***************************************************************************)
(* C8.  When the server process has exited after a signal, cleanup has     *)
(* called stop_stream exactly once.                                        *)
(***************************************************************************)
C8_StopPathRunsOnce == server = "exited" => stopRuns = 1

(***************************************************************************)
(* C9.  The session moves only Idle -> Starting (a start stores the        *)
(* process it launched), Starting -> Running (that start returns           *)
(* "Started"), Starting -> Idle (that start returns a failure) and         *)
(* Running -> Idle (a stop clears the handle), and a process is launched   *)
(* only from Idle.                                                         *)
(***************************************************************************)
InLoop(t) ==
    pc[t] \in {"s88", "s89", "s90", "s93", "s99", "s100", "s103", "s104"}

SessionState ==
    IF ffmpeg_proc = None THEN "Idle"
    ELSE IF \E t \in Threads : InLoop(t) /\ local[t].child = ffmpeg_proc
         THEN "Starting"
         ELSE "Running"

C9_Step ==
    /\ Launched' # Launched => SessionState = "Idle"
    /\ \/ SessionState' = SessionState
       \/ /\ SessionState = "Idle" /\ SessionState' = "Starting"
          /\ \E t \in Threads : pc[t] = "s63s" /\ pc'[t] = "s88"
       \/ /\ SessionState = "Starting" /\ SessionState' = "Running"
          /\ result'.op = "start" /\ result'.msg = "Started"
       \/ /\ SessionState = "Starting" /\ SessionState' = "Idle"
          /\ result'.op = "start" /\ result'.fault = "" /\ ~result'.ok
       \/ /\ SessionState = "Running" /\ SessionState' = "Idle"
          /\ \E a \in Actors : pc[a] = "k117" /\ pc'[a] # "k117"

C9_SessionTransitions == [][C9_Step]_vars

(***************************************************************************)
(* C10.  GET /hls/<name> with ".." or "/" in <name> is answered 403 and    *)
(* opens nothing, whatever exists; any other <name> has open() called on   *)
(* HLS_DIR/<name> and nothing else, what is read is the file <name>        *)
(* directly inside HLS_DIR, and the answer is 404 when nothing is there.   *)
(***************************************************************************)
\* nothing exists at HLS_DIR/<name>
Absent(name) ==
    \/ ~dirExists
    \/ name \notin files /\ name \notin {<<>>, <<".">>}

C11_AllResponsesCors == result.code = 200 => result.cors

(***************************************************************************)
(* C12.  A 200 response of the file server (GET /project, GET /, GET       *)
(* /hls/<name>) carries Cache-Control: max-age=60 when it is a /hls/ file  *)
(* whose name ends in ".ts", and the no-cache value in every other case.   *)
(***************************************************************************)
EndsInTs(name) ==
    /\ Len(name) >= 3
    /\ name[Len(name) - 1] = "." /\ name[Len(name)] = "ts"

C12_OnlySegmentsCacheable ==
    (result.code = 200 /\ result.op \in {"project", "root", "hls"}) =>
        IF result.op = "hls" /\ EndsInTs(result.name)
        THEN result.cache = "max-age=60"
        ELSE result.cache = "no-cache, no-store, must-revalidate"

(***************************************************************************)
(* C13.  With requests handled one after another: a start_stream call      *)
(* polls at most MaxPolls times (the model's range(40)) and then leaves    *)
(* the loop, and no statement of the loop waits.  In an iteration the exit *)
(* of the process is tested first: a poll that finds the process gone ends *)
(* the call with the permission-hint failure, whatever the directory       *)
(* holds, and the manifest is looked for only after a poll that found the  *)
(* process alive; "Started" is returned by that test of the manifest and   *)
(* by nothing else, and a manifest found there ends the call at once.      *)
(***************************************************************************)
C13_Call(t) ==
    \* every poll is one of the MaxPolls iterations
    /\ pc[t] = "s88" => local[t].i < MaxPolls
    \* the process has exited: no manifest test, no further iteration
    /\ (pc[t] = "s88" /\ pc'[t] # "s88"
          /\ ffmpeg_proc # None /\ Exited(ffmpeg_proc)) => pc'[t] = "s89"
    \* reading its stderr does not wait: the process polled is the one read
    /\ pc[t] = "s89" => ffmpeg_proc # None /\ Exited(ffmpeg_proc)
    /\ (pc[t] = "s89" /\ pc'[t] # "s89") => pc'[t] = "s90"
    /\ (pc[t] \in {"s89", "s90"} /\ pc'[t] = "idle") =>
          /\ result'.op = "start" /\ result'.by = t /\ ~result'.ok
          /\ result'.fault = "" /\ result'.msg = PermissionHint
    \* the manifest is tested after a poll that found the process alive
    /\ (pc'[t] = "s93" /\ pc[t] # "s93") =>
          /\ pc[t] = "s88"
          /\ ffmpeg_proc # None /\ ~Exited(ffmpeg_proc)
    \* "Started" comes from the manifest test, within the MaxPolls iterations
    /\ (result'.op = "start" /\ result'.by = t /\ result'.msg = "Started") =>
          /\ pc[t] = "s93" /\ ManifestExists
          /\ local[t].i < MaxPolls
    /\ (pc[t] = "s93" /\ pc'[t] # "s93" /\ ManifestExists) =>
          /\ result'.op = "start" /\ result'.by = t
          /\ result'.ok /\ result'.msg = "Started"
    \* no manifest: the next iteration, or the end of the loop after the last
    /\ (pc[t] = "s93" /\ pc'[t] # "s93" /\ ~ManifestExists) =>
          /\ local'[t].i = local[t].i + 1
          /\ pc'[t] = IF local'[t].i < MaxPolls THEN "s88" ELSE "s99"

SessionProcessExited ==
    /\ last = "started"
    /\ Launched # {}
    /\ Exited(CHOOSE p \in Launched : \A q \in Launched : q <= p)

C14_Step ==
    SessionProcessExited =>
        \A t \in Threads :
            /\ (pc[t] = "idle" /\ pc'[t] = "g157") => ~local'[t].running
            /\ (result'.op = "root" /\ result'.by = t) =>
                   result'.page = "not active"

C14_ExitEndsSession == [][C14_Step]_vars

(***************************************************************************)
(* C15.  With requests handled one after another: a start that found no    *)
(* session launches its process into an existing, empty segment directory, *)
(* and a start that returns "Started" saw a manifest written by the        *)
(* process it launched itself.                                             *)
(***************************************************************************)
C15_FreshManifest ==
    /\ \A t \in Threads : pc[t] = "s63" => dirExists /\ files = {}
    /\ (result.op = "start" /\ result.msg = "Started") =>
          /\ result.spawned # None
          /\ ManifestExists /\ manifestBy = result.spawned

\* a later start succeeds on its own manifest, the first process being gone
C15_Witness ==
    /\ result.op = "start" /\ result.msg = "Started"
    /\ result.spawned > 1 /\ manifestBy = result.spawned
    /\ proc[1] = "exited"

(***************************************************************************)
(* C16.  When start_stream returns ok=true ("Started" or "Already          *)
(* running") the handle is not None and names a process that was launched, *)
(* in every state the threaded server reaches.                             *)
(***************************************************************************)
C16_OkMeansSession ==
    (result.op = "start" /\ result.ok) =>
        ffmpeg_proc # None /\ ffmpeg_proc \in Launched

(***************************************************************************)
(* C17.  In every answer to GET /api/status, viewer_url is not null        *)
(* exactly when running is true, in every state the threaded server        *)
(* reaches.                                                                *)
(***************************************************************************)
C17_StatusConsistent ==
    result.op = "status" => (result.url # <<>> <=> result.running)

(***************************************************************************)
(* C18.  While a start is polling for the first output (the handle names   *)
(* the process that start launched and the start has not returned), a      *)
(* GET /api/status reads running=false and a GET / answers with the        *)
(* placeholder.                                                            *)
(***************************************************************************)
C18_Step ==
    SessionState = "Starting" =>
        \A t \in Threads :
            /\ (pc[t] = "idle" /\ pc'[t] = "g157") => ~local'[t].running
            /\ (result'.op = "root" /\ result'.by = t) =>
                   result'.page = "not active"

C18_NotActiveWhileStarting == [][C18_Step]_vars

(***************************************************************************)
(* C19.  Once the server process has exited after a signal, no capture     *)
(* process it launched is alive.                                           *)
(***************************************************************************)
C19_NoOrphan == server = "exited" => \A p \in Launched : ~Alive(p)

====
